---- MODULE Spec2Model ----
(***************************************************************************)
(* arcade.gl: the Context (state toggles, blend function, point size) and  *)
(* the Program (use, uniform get/set) as state machines over the tracked   *)
(* Python state and the state of the OpenGL driver the calls act on.       *)
(***************************************************************************)
EXTENDS Integers, Sequences, FiniteSets, TLC

(* ------------------------------------------------------------------ *)
(* Model bounds                                                        *)
(* ------------------------------------------------------------------ *)

\* longest argument list passed to enable / enable_only / disable
MaxArgs == 2

\* point sizes assigned: 1..MaxPointSize
MaxPointSize == 3

\* number of Program objects of the context
NumPrograms == 2

\* the error codes the driver reports: 0..MaxErrorCode
MaxErrorCode == 1290

\* incr and decr calls made on a ContextStats in all
MaxStatOps == 4

\* longest list of out attributes of a shader or of a Program
MaxOuts == 1

(* ------------------------------------------------------------------ *)
(* Context constants                                                   *)
(* ------------------------------------------------------------------ *)

BLEND == "GL_BLEND"
DEPTH_TEST == "GL_DEPTH_TEST"
CULL_FACE == "GL_CULL_FACE"
PROGRAM_POINT_SIZE == "GL_PROGRAM_POINT_SIZE"

\* the four flags the Context class names
ContextFlags == {BLEND, DEPTH_TEST, CULL_FACE, PROGRAM_POINT_SIZE}

\* enable(*args) and disable(*args) hand any argument to the driver; a
\* capability the Context class does not name stands for all of those
OtherCaps == {"GL_SCISSOR_TEST"}

Caps == ContextFlags \cup OtherCaps

\* the argument tuples (*args) of enable, enable_only and disable
ArgLists == UNION {[1..n -> Caps] : n \in 0..MaxArgs}

\* blend factors
ZERO == 0
ONE == 1
SRC_ALPHA == 770
ONE_MINUS_SRC_ALPHA == 771

BLEND_DEFAULT == <<SRC_ALPHA, ONE_MINUS_SRC_ALPHA>>
BLEND_PREMULTIPLIED_ALPHA == <<SRC_ALPHA, ONE>>

\* the pairs assigned to blend_func
BlendFactors == {ZERO, ONE, SRC_ALPHA, ONE_MINUS_SRC_ALPHA}
BlendFuncs == BlendFactors \X BlendFactors

\* the values assigned to point_size
PointSizes == 1..MaxPointSize

\* self.active_program = None
None == 0

\* the Program objects of the context
Programs == 1..NumPrograms

\* the names glCreateProgram can hand out: any non-zero name not in use
GloNames == 1..(NumPrograms + 1)

\* uniform names and the values assigned to them
UniformNames == {"color", "scale"}
UniformValues == {10, 20}

\* the codes of glGetError
GL_NO_ERROR == 0
GL_INVALID_ENUM == 1280
GL_INVALID_VALUE == 1281
GL_INVALID_OPERATION == 1282
GL_STACK_OVERFLOW == 1283
GL_STACK_UNDERFLOW == 1284
GL_OUT_OF_MEMORY == 1285
GL_INVALID_FRAMEBUFFER_OPERATION == 1286

\* what glGetError can answer
ErrorCodes == 0..MaxErrorCode

\* Context._errors
_errors ==
    [err \in {GL_INVALID_ENUM, GL_INVALID_VALUE, GL_INVALID_OPERATION,
              GL_INVALID_FRAMEBUFFER_OPERATION, GL_OUT_OF_MEMORY,
              GL_STACK_UNDERFLOW, GL_STACK_OVERFLOW} |->
        CASE err = GL_INVALID_ENUM -> "GL_INVALID_ENUM"
          [] err = GL_INVALID_VALUE -> "GL_INVALID_VALUE"
          [] err = GL_INVALID_OPERATION -> "GL_INVALID_OPERATION"
          [] err = GL_INVALID_FRAMEBUFFER_OPERATION -> "GL_INVALID_FRAMEBUFFER_OPERATION"
          [] err = GL_OUT_OF_MEMORY -> "GL_OUT_OF_MEMORY"
          [] err = GL_STACK_UNDERFLOW -> "GL_STACK_UNDERFLOW"
          [] err = GL_STACK_OVERFLOW -> "GL_STACK_OVERFLOW"]

\* the resource kinds ContextStats counts
StatKeys == {"texture", "framebuffer", "buffer", "program", "vertex_array", "geometry"}

\* ContextStats(warn_threshold=1000)
warn_threshold == 1000

\* shader stages
GL_VERTEX_SHADER == "GL_VERTEX_SHADER"
GL_FRAGMENT_SHADER == "GL_FRAGMENT_SHADER"
GL_GEOMETRY_SHADER == "GL_GEOMETRY_SHADER"

\* names of out attributes, and the lists of them
OutNames == {"out_pos", "out_vel"}
OutLists == UNION {[1..n -> OutNames] : n \in 0..MaxOuts}

\* a shader argument: None, the empty string, or a source text, which
\* carries the out attributes ShaderSource finds in it (out_attributes)
NoShader == [kind |-> "None", out_attributes |-> <<>>]
EmptyShader == [kind |-> "empty", out_attributes |-> <<>>]
ShaderText(outs) == [kind |-> "source", out_attributes |-> outs]

\* the shader arguments of Context.program: vertex_shader is required
VertexArgs == {ShaderText(outs) : outs \in OutLists}
ShaderArgs == {NoShader, EmptyShader} \cup {ShaderText(outs) : outs \in OutLists}

\* the fragment_shader and geometry_shader arguments of Program
ProgramShaderArgs == {NoShader, EmptyShader, ShaderText(<<>>)}

\* the out_attributes argument of Program: <<>> is None, <<l>> the list l
OutArgs == {<<>>} \cup {<<outs>> : outs \in OutLists}

\* set(args)
set(args) == {args[i] : i \in DOMAIN args}

VARIABLES
    _flags,          \* Context._flags
    gl_caps,         \* driver: the capabilities glEnable has switched on
    old_flags,       \* Context._flags as the last operation found it
    _blend_func,     \* Context._blend_func
    gl_blend,        \* driver: the blend function glBlendFunc has set
    last_blend,      \* the pair most recently assigned to blend_func, <<>> if none
    _point_size,     \* Context._point_size
    gl_point_size,   \* driver: the point size glPointSize has set
    active_program,  \* Context.active_program
    gl_program,      \* driver: the program glUseProgram has bound, 0 if none
    _glo,            \* Program._glo of each program
    _uniforms,       \* Program._uniforms of each program (the names in the map)
    old_active,      \* Context.active_program as the last operation found it
    uniform_calls,   \* the Uniform getter/setter runs of the last operation
    op,              \* the operation that ran last: [name, args]
    calls,           \* the driver calls the last operation issued, in order
    result,          \* how the last operation ended: "ok" or the exception
    gl_programs,     \* driver: the program names glCreateProgram has handed out
    stats,           \* ContextStats: the (created, freed) pair of each resource kind
    old_stats,       \* the pairs as the last operation found them
    returned         \* what Context.error last returned: <<>> for None, <<s>> for str s

flag_vars == <<_flags, gl_caps, old_flags>>
state_vars == <<_blend_func, gl_blend, last_blend, _point_size, gl_point_size>>
program_vars ==
    <<active_program, gl_program, gl_programs, _glo, _uniforms, old_active, uniform_calls>>
stat_vars == <<stats, old_stats>>
vars == <<flag_vars, state_vars, program_vars, stat_vars, returned, op, calls, result>>

(* ------------------------------------------------------------------ *)
(* The driver: d is [caps, calls]                                      *)
(* ------------------------------------------------------------------ *)

glEnable(d, cap) ==
    [caps |-> d.caps \cup {cap}, calls |-> Append(d.calls, <<"glEnable", cap>>)]

glDisable(d, cap) ==
    [caps |-> d.caps \ {cap}, calls |-> Append(d.calls, <<"glDisable", cap>>)]

\* for flag in args: gl.glEnable(flag)
RECURSIVE EnableEach(_, _)
EnableEach(d, args) ==
    IF args = <<>> THEN d
    ELSE EnableEach(glEnable(d, Head(args)), Tail(args))

\* for flag in args: gl.glDisable(flag)
RECURSIVE DisableEach(_, _)
DisableEach(d, args) ==
    IF args = <<>> THEN d
    ELSE DisableEach(glDisable(d, Head(args)), Tail(args))

\* if flag in self._flags: gl.glEnable(flag) else: gl.glDisable(flag)
EnableOrDisable(d, fl, flag) ==
    IF flag \in fl THEN glEnable(d, flag) ELSE glDisable(d, flag)

(* ------------------------------------------------------------------ *)
(* Context                                                             *)
(* ------------------------------------------------------------------ *)

\* Context.__init__. The driver of a new GL context has none of the modelled
\* capabilities switched on, blend function (ONE, ZERO), point size 1 and no
\* program bound. No Program has been built yet (_glo[p] = 0).
Init ==
    /\ _flags = {}
    /\ gl_caps = {}
    /\ old_flags = {}
    /\ _blend_func = BLEND_DEFAULT
    /\ gl_blend = <<ONE, ZERO>>
    /\ last_blend = <<>>
    /\ _point_size = 1
    /\ gl_point_size = 1
    /\ active_program = None
    /\ gl_program = 0
    /\ _glo = [p \in Programs |-> 0]
    /\ _uniforms = [p \in Programs |-> {}]
    /\ old_active = None
    /\ uniform_calls = <<>>
    /\ op = [name |-> "__init__", args |-> <<>>]
    /\ calls = <<>>
    /\ result = "ok"
    /\ gl_programs = {}
    /\ stats = [key \in StatKeys |-> <<0, 0>>]
    /\ old_stats = [key \in StatKeys |-> <<0, 0>>]
    /\ returned = <<>>

is_enabled(flag) == flag \in _flags

\* assigns the arguments instead of adding them
flags_update_assign(args) == set(args)

\* self._flags.update(args)
flags_update(args) == _flags \cup set(args)

enable(args) ==
    LET d == EnableEach([caps |-> gl_caps, calls |-> <<>>], args)
    IN  /\ _flags' = flags_update(args)
        /\ gl_caps' = d.caps
        /\ calls' = d.calls
        /\ op' = [name |-> "enable", args |-> args]
        /\ old_flags' = _flags
        /\ result' = "ok"
        /\ UNCHANGED <<state_vars, program_vars, stat_vars, returned>>

\* adds the arguments to the set instead of replacing it
flags_assign_keep(args) == _flags \cup set(args)

\* self._flags = set(args)
flags_assign(args) == set(args)

enable_only(args) ==
    LET fl == flags_assign(args)
        d0 == [caps |-> gl_caps, calls |-> <<>>]
        d1 == EnableOrDisable(d0, fl, BLEND)
        d2 == EnableOrDisable(d1, fl, DEPTH_TEST)
        d3 == EnableOrDisable(d2, fl, CULL_FACE)
        d4 == EnableOrDisable(d3, fl, PROGRAM_POINT_SIZE)
    IN  /\ _flags' = fl
        /\ gl_caps' = d4.caps
        /\ calls' = d4.calls
        /\ op' = [name |-> "enable_only", args |-> args]
        /\ old_flags' = _flags
        /\ result' = "ok"
        /\ UNCHANGED <<state_vars, program_vars, stat_vars, returned>>

\* toggles the arguments (^=) instead of removing them
flags_remove_toggle(args) == (_flags \ set(args)) \cup (set(args) \ _flags)

\* self._flags -= set(args)
flags_remove(args) == _flags \ set(args)

disable(args) ==
    LET d == DisableEach([caps |-> gl_caps, calls |-> <<>>], args)
    IN  /\ _flags' = flags_remove(args)
        /\ gl_caps' = d.caps
        /\ calls' = d.calls
        /\ op' = [name |-> "disable", args |-> args]
        /\ old_flags' = _flags
        /\ result' = "ok"
        /\ UNCHANGED <<state_vars, program_vars, stat_vars, returned>>

\* the blend_func property
blend_func == _blend_func

\* passes the source factor twice
glBlendFunc_args_src_twice(value) == <<value[1], value[1]>>

\* gl.glBlendFunc(value[0], value[1])
glBlendFunc_args(value) == <<value[1], value[2]>>

\* the blend_func setter
set_blend_func(value) ==
    /\ _blend_func' = value
    /\ gl_blend' = glBlendFunc_args(value)
    /\ calls' = << <<"glBlendFunc">> \o glBlendFunc_args(value) >>
    /\ last_blend' = value
    /\ op' = [name |-> "blend_func", args |-> value]
    /\ result' = "ok"
    /\ UNCHANGED <<_point_size, gl_point_size, flag_vars, program_vars, stat_vars, returned>>

\* the point_size property
point_size == _point_size

\* the point_size setter: the driver call comes first and is given
\* self._point_size, then the new value is stored
set_point_size(value) ==
    /\ gl_point_size' = _point_size
    /\ calls' = << <<"glPointSize", _point_size>> >>
    /\ _point_size' = value
    /\ op' = [name |-> "point_size", args |-> value]
    /\ result' = "ok"
    /\ UNCHANGED <<_blend_func, gl_blend, last_blend, flag_vars, program_vars, stat_vars, returned>>

\* dict.get(key, default) on Context._errors
errors_get(err, default) == IF err \in DOMAIN _errors THEN _errors[err] ELSE default

\* looks the code up without the GL_NO_ERROR test
error_value_unchecked(err) == <<errors_get(err, "GL_UNKNOWN_ERROR")>>

\* what the error property returns when glGetError answers err
error_value(err) ==
    IF err = GL_NO_ERROR THEN <<>>
    ELSE <<errors_get(err, "GL_UNKNOWN_ERROR")>>

\* the error property: one glGetError call, whose answer is err
error(err) ==
    /\ returned' = error_value(err)
    /\ calls' = << <<"glGetError">> >>
    /\ op' = [name |-> "error", args |-> err]
    /\ result' = "ok"
    /\ UNCHANGED <<flag_vars, state_vars, program_vars, stat_vars>>

(* ------------------------------------------------------------------ *)
(* ContextStats: s is the (created, freed) pair of every resource kind *)
(* ------------------------------------------------------------------ *)

\* adds to freed instead of created
incr_freed(s, key) == [s EXCEPT ![key] = <<s[key][1], s[key][2] + 1>>]

\* created, freed = getattr(self, key); setattr(self, key, (created + 1, freed))
incr(s, key) == [s EXCEPT ![key] = <<s[key][1] + 1, s[key][2]>>]

\* created, freed = getattr(self, key); setattr(self, key, (created, freed + 1))
decr(s, key) == [s EXCEPT ![key] = <<s[key][1], s[key][2] + 1>>]

\* incr's LOG.debug line: written when the count found is a positive
\* multiple of warn_threshold
incr_log(s, key) ==
    IF s[key][1] % warn_threshold = 0 /\ s[key][1] > 0
    THEN << <<"LOG.debug", key>> >>
    ELSE <<>>

\* the incr and decr calls made so far
RECURSIVE StatOps(_, _)
StatOps(s, keys) ==
    IF keys = {} THEN 0
    ELSE LET key == CHOOSE k \in keys : TRUE
         IN  s[key][1] + s[key][2] + StatOps(s, keys \ {key})

ContextStats_incr(key) ==
    /\ StatOps(stats, StatKeys) < MaxStatOps
    /\ stats' = incr(stats, key)
    /\ old_stats' = stats
    /\ calls' = incr_log(stats, key)
    /\ op' = [name |-> "incr", args |-> key]
    /\ result' = "ok"
    /\ UNCHANGED <<flag_vars, state_vars, program_vars, returned>>

ContextStats_decr(key) ==
    /\ StatOps(stats, StatKeys) < MaxStatOps
    /\ stats' = decr(stats, key)
    /\ old_stats' = stats
    /\ calls' = <<>>
    /\ op' = [name |-> "decr", args |-> key]
    /\ result' = "ok"
    /\ UNCHANGED <<flag_vars, state_vars, program_vars, returned>>

(* ------------------------------------------------------------------ *)
(* Program: s is [active, bound, calls], the context's active program, *)
(* the program bound in the driver and the driver calls issued so far  *)
(* ------------------------------------------------------------------ *)

\* binds the program but does not record it as the active one
use_untracked(s, p) ==
    IF s.active # p
    THEN [active |-> s.active, bound |-> _glo[p],
          calls |-> Append(s.calls, <<"glUseProgram", _glo[p]>>)]
    ELSE s

\* Program.use
use(s, p) ==
    IF s.active # p
    THEN [active |-> p, bound |-> _glo[p],
          calls |-> Append(s.calls, <<"glUseProgram", _glo[p]>>)]
    ELSE s

\* sets the uniform without activating the program first
ensure_active_skip(s, p) == s

\* __setitem__: if self._ctx.active_program != self: self.use()
ensure_active(s, p) == IF s.active # p THEN use(s, p) ELSE s

\* a lookup that never fails (a default Uniform for a missing name)
has_uniform_default(p, name) == TRUE

\* uniform = self._uniforms[name] finds the name (no KeyError)
has_uniform(p, name) == name \in _uniforms[p]

\* one run of a Uniform's getter or setter, with the program the context
\* tracked as active and the program the driver had bound when it ran
UniformCall(fn, s, p, name, value) ==
    [fn |-> fn, program |-> p, name |-> name, value |-> value,
     active |-> s.active, bound |-> s.bound]

\* the Program objects built so far
Built == {p \in Programs : _glo[p] # 0}

\* if shader: (None and the empty string are false)
truthy(shader) == shader.kind = "source"

\* shaders = [vertex] + [fragment if given] + [geometry if given]
shaders(fragment, geometry) ==
    <<GL_VERTEX_SHADER>>
        \o (IF truthy(fragment) THEN <<GL_FRAGMENT_SHADER>> ELSE <<>>)
        \o (IF truthy(geometry) THEN <<GL_GEOMETRY_SHADER>> ELSE <<>>)

\* out_attributes or []
or_empty(out_attributes) == IF out_attributes = <<>> THEN <<>> ELSE out_attributes[1]

\* Program.compile_shader, then glAttachShader, for each stage in turn; b is
\* [calls, raised]; a stage in bad does not compile, and compile_shader
\* raises ShaderException there
RECURSIVE CompileEach(_, _, _)
CompileEach(b, stages, bad) ==
    IF stages = <<>> THEN b
    ELSE LET t == Head(stages)
             c == [b EXCEPT !.calls = b.calls \o << <<"glCreateShader", t>>,
                                                   <<"glShaderSource", t>>,
                                                   <<"glCompileShader", t>> >>]
         IN  IF t \in bad
             THEN [c EXCEPT !.calls = Append(c.calls, <<"glGetShaderInfoLog", t>>),
                            !.raised = TRUE]
             ELSE CompileEach([c EXCEPT !.calls = Append(c.calls, <<"glAttachShader", t>>)],
                              Tail(stages), bad)

\* registers the varyings whatever shaders were given
setup_out_attributes_always(b, fragment, outs) ==
    IF outs = <<>> THEN b
    ELSE [b EXCEPT !.calls = Append(b.calls, <<"glTransformFeedbackVaryings", outs>>)]

\* if not fragment_shader: self._setup_out_attributes(), which returns at
\* once when self._out_attributes is empty
setup_out_attributes(b, fragment, outs) ==
    IF truthy(fragment) THEN b
    ELSE IF outs = <<>> THEN b
    ELSE [b EXCEPT !.calls = Append(b.calls, <<"glTransformFeedbackVaryings", outs>>)]

\* Program.link: glLinkProgram, and ShaderException when the link status is false
link(b, link_ok) ==
    [calls |-> Append(b.calls, <<"glLinkProgram">>), raised |-> ~link_ok]

\* for shader in shaders_id: gl.glDeleteShader(shader)
RECURSIVE DeleteEach(_, _)
DeleteEach(b, stages) ==
    IF stages = <<>> THEN b
    ELSE DeleteEach([b EXCEPT !.calls = Append(b.calls, <<"glDeleteShader", Head(stages)>>)],
                    Tail(stages))

\* the driver calls of Program.__init__ that change driver state, in order,
\* up to the exception if one is raised
construct(glo, fragment, geometry, out_attributes, bad, link_ok) ==
    LET stages == shaders(fragment, geometry)
        b0 == [calls |-> << <<"glCreateProgram", glo>> >>, raised |-> FALSE]
        b1 == CompileEach(b0, stages, bad)
        b2 == IF b1.raised THEN b1
              ELSE setup_out_attributes(b1, fragment, or_empty(out_attributes))
        b3 == IF b2.raised THEN b2 ELSE link(b2, link_ok)
    IN  IF b3.raised THEN b3 ELSE DeleteEach(b3, stages)

\* Program.__init__: glCreateProgram hands out a non-zero name no other
\* program has; when nothing raises, _introspect_uniforms fills the uniform
\* map with the names the driver reports and stats.incr('program') counts the
\* program; when a stage does not compile or the program does not link,
\* ShaderException leaves no Program object and the driver name stays taken
Program_new(opname, opargs, p, glo, names, fragment, geometry, out_attributes, bad, link_ok) ==
    LET b == construct(glo, fragment, geometry, out_attributes, bad, link_ok)
    IN  /\ p \notin Built
        /\ glo \notin gl_programs
        /\ gl_programs' = gl_programs \cup {glo}
        /\ calls' = b.calls
        /\ IF b.raised
           THEN /\ result' = "ShaderException"
                /\ UNCHANGED <<_glo, _uniforms, stats>>
           ELSE /\ result' = "ok"
                /\ _glo' = [_glo EXCEPT ![p] = glo]
                /\ _uniforms' = [_uniforms EXCEPT ![p] = names]
                /\ stats' = incr(stats, "program")
        /\ old_stats' = stats
        /\ uniform_calls' = <<>>
        /\ old_active' = active_program
        /\ op' = [name |-> opname, args |-> opargs]
        /\ UNCHANGED <<active_program, gl_program, flag_vars, state_vars, returned>>

\* Program(ctx, vertex_shader=..., fragment_shader=..., geometry_shader=...,
\* out_attributes=...)
Program_init(p, glo, names, fragment, geometry, out_attributes, bad, link_ok) ==
    Program_new("Program",
                [program |-> p, fragment |-> fragment, geometry |-> geometry,
                 out_attributes |-> out_attributes, bad |-> bad, link_ok |-> link_ok],
                p, glo, names, fragment, geometry, out_attributes, bad, link_ok)

\* source_fs = ShaderSource(fragment_shader, ...) if fragment_shader else None
ShaderSource_or_None(shader) == IF truthy(shader) THEN shader ELSE NoShader

\* takes the vertex shader's out attributes even when a geometry shader is given
program_out_attributes_vertex(source_vs, source_fs, source_geo) ==
    IF ~truthy(source_fs) THEN source_vs.out_attributes ELSE <<>>

\* Context.program: the out attributes handed to Program
program_out_attributes(source_vs, source_fs, source_geo) ==
    IF ~truthy(source_fs)
    THEN IF truthy(source_geo)
         THEN source_geo.out_attributes
         ELSE source_vs.out_attributes
    ELSE <<>>

\* Context.program
Context_program(p, glo, names, vertex_shader, fragment_shader, geometry_shader, bad, link_ok) ==
    LET source_vs == vertex_shader
        source_fs == ShaderSource_or_None(fragment_shader)
        source_geo == ShaderSource_or_None(geometry_shader)
        out_attributes == program_out_attributes(source_vs, source_fs, source_geo)
    IN  Program_new("Context.program",
                    [program |-> p, vertex_shader |-> vertex_shader,
                     fragment_shader |-> fragment_shader,
                     geometry_shader |-> geometry_shader,
                     out_attributes |-> out_attributes],
                    p, glo, names, source_fs, source_geo, <<out_attributes>>, bad, link_ok)

Program_use(p) ==
    LET s == use([active |-> active_program, bound |-> gl_program, calls |-> <<>>], p)
    IN  /\ active_program' = s.active
        /\ gl_program' = s.bound
        /\ calls' = s.calls
        /\ uniform_calls' = <<>>
        /\ old_active' = active_program
        /\ op' = [name |-> "use", args |-> <<p>>]
        /\ result' = "ok"
        /\ UNCHANGED <<gl_programs, _glo, _uniforms, flag_vars, state_vars, stat_vars, returned>>

Program_getitem(p, item) ==
    LET s == [active |-> active_program, bound |-> gl_program, calls |-> <<>>]
    IN  /\ IF has_uniform(p, item)
           THEN /\ uniform_calls' = <<UniformCall("getter", s, p, item, 0)>>
                /\ result' = "ok"
           ELSE /\ uniform_calls' = <<>>
                /\ result' = "ShaderException"
        /\ calls' = <<>>
        /\ old_active' = active_program
        /\ op' = [name |-> "__getitem__", args |-> <<p, item>>]
        /\ UNCHANGED <<active_program, gl_program, gl_programs, _glo, _uniforms,
                     flag_vars, state_vars, stat_vars, returned>>

Program_setitem(p, key, value) ==
    LET s == ensure_active(
                 [active |-> active_program, bound |-> gl_program, calls |-> <<>>], p)
    IN  /\ active_program' = s.active
        /\ gl_program' = s.bound
        /\ calls' = s.calls
        /\ IF has_uniform(p, key)
           THEN /\ uniform_calls' = <<UniformCall("setter", s, p, key, value)>>
                /\ result' = "ok"
           ELSE /\ uniform_calls' = <<>>
                /\ result' = "ShaderException"
        /\ old_active' = active_program
        /\ op' = [name |-> "__setitem__", args |-> <<p, key, value>>]
        /\ UNCHANGED <<gl_programs, _glo, _uniforms, flag_vars, state_vars, stat_vars, returned>>

(* ------------------------------------------------------------------ *)
(* Specifications                                                      *)
(* ------------------------------------------------------------------ *)

\* enable, enable_only and disable in any order
NextFlags ==
    \/ \E args \in ArgLists : enable(args)
    \/ \E args \in ArgLists : enable_only(args)
    \/ \E args \in ArgLists : disable(args)

SpecFlags == Init /\ [][NextFlags]_vars

\* assignments to blend_func and point_size in any order
NextState ==
    \/ \E value \in BlendFuncs : set_blend_func(value)
    \/ \E value \in PointSizes : set_point_size(value)

SpecState == Init /\ [][NextState]_vars

\* use(), program[name] and program[name] = value on the programs of the context
NextProgram ==
    \/ \E p \in Programs, glo \in GloNames, names \in SUBSET UniformNames :
           Program_init(p, glo, names, ShaderText(<<>>), NoShader, <<>>, {}, TRUE)
    \/ \E p \in Built : Program_use(p)
    \/ \E p \in Built, item \in UniformNames : Program_getitem(p, item)
    \/ \E p \in Built, key \in UniformNames, value \in UniformValues :
           Program_setitem(p, key, value)

SpecProgram == Init /\ [][NextProgram]_vars

\* Program(...) with every combination of shader stages and out attributes,
\* and every outcome of compiling and linking in the driver; program p gets
\* the driver name p
NextBuild ==
    \E p \in Programs, fragment \in ProgramShaderArgs, geometry \in ProgramShaderArgs,
       out_attributes \in OutArgs, link_ok \in BOOLEAN :
        \E bad \in SUBSET set(shaders(fragment, geometry)) :
            Program_init(p, p, UniformNames, fragment, geometry, out_attributes, bad, link_ok)

SpecBuild == Init /\ [][NextBuild]_vars

\* ctx.program(...) with every combination of shader sources, on a driver
\* that compiles and links them; program p gets the driver name p
NextContextProgram ==
    \E p \in Programs, vertex_shader \in VertexArgs,
       fragment_shader \in ShaderArgs, geometry_shader \in ShaderArgs :
        Context_program(p, p, UniformNames, vertex_shader, fragment_shader,
                        geometry_shader, {}, TRUE)

SpecContextProgram == Init /\ [][NextContextProgram]_vars

\* reads of the error property, with every answer of glGetError
NextError == \E err \in ErrorCodes : error(err)

SpecError == Init /\ [][NextError]_vars

\* incr and decr on the resource kinds in any order
NextStats ==
    \/ \E key \in StatKeys : ContextStats_incr(key)
    \/ \E key \in StatKeys : ContextStats_decr(key)

SpecStats == Init /\ [][NextStats]_vars

(* ------------------------------------------------------------------ *)
(* Claims                                                              *)
(* ------------------------------------------------------------------ *)

\* C1: after enable_only(F) the tracked flag set is exactly F, whatever was
\* tracked before: is_enabled(f) holds if and only if f is one of the
\* arguments, and enable_only() with no arguments leaves no flag enabled.
C1_EnableOnlyExact ==
    op.name = "enable_only" =>
        /\ \A f \in Caps : is_enabled(f) <=> (\E i \in DOMAIN op.args : op.args[i] = f)
        /\ (op.args = <<>> => \A f \in Caps : ~is_enabled(f))

\* enable_only() with no arguments has run on a context that tracked flags
C1_Witness ==
    /\ op.name = "enable_only"
    /\ op.args = <<>>
    /\ {BLEND, DEPTH_TEST} \subseteq old_flags
    /\ _flags = {}

\* C2: after any sequence of enable, disable and enable_only calls the
\* driver's enabled state of every flag agrees with is_enabled(flag), so
\* enable_only has disabled in the driver every flag enabled earlier that
\* is not among its arguments.
C2_DriverAgrees ==
    \A f \in Caps : (f \in gl_caps) <=> is_enabled(f)

\* C3: after enable(F) every f in F is enabled, every other flag keeps the
\* state it had, enabling flags that are all enabled already leaves the
\* tracked set as it was, and glEnable is issued once per argument, in order.
C3_EnableFrame ==
    op.name = "enable" =>
        /\ \A f \in set(op.args) : is_enabled(f)
        /\ \A f \in Caps \ set(op.args) : is_enabled(f) <=> f \in old_flags
        /\ (set(op.args) \subseteq old_flags => _flags = old_flags)
        /\ Len(calls) = Len(op.args)
        /\ \A i \in DOMAIN op.args : calls[i] = <<"glEnable", op.args[i]>>

\* enable(BLEND, BLEND) has run with BLEND enabled already and another flag set
C3_Witness ==
    /\ op.name = "enable"
    /\ op.args = <<BLEND, BLEND>>
    /\ old_flags = {BLEND, DEPTH_TEST}
    /\ _flags = {BLEND, DEPTH_TEST}
    /\ Len(calls) = 2

\* C4: after disable(F) no f in F is enabled, every other flag keeps the state
\* it had, the number of enabled flags drops by exactly the number of flags of
\* F that were enabled, and disabling a flag that is not enabled raises
\* nothing and leaves the tracked set unchanged.
C4_DisableFrame ==
    op.name = "disable" =>
        /\ \A f \in set(op.args) : ~is_enabled(f)
        /\ \A f \in Caps \ set(op.args) : is_enabled(f) <=> f \in old_flags
        /\ Cardinality(old_flags) - Cardinality(_flags)
               = Cardinality(set(op.args) \cap old_flags)
        /\ result = "ok"
        /\ (set(op.args) \cap old_flags = {} => _flags = old_flags)

\* disable(BLEND, CULL_FACE) has run with BLEND enabled and CULL_FACE not enabled
C4_Witness ==
    /\ op.name = "disable"
    /\ op.args = <<BLEND, CULL_FACE>>
    /\ old_flags = {BLEND, DEPTH_TEST}
    /\ _flags = {DEPTH_TEST}
    /\ result = "ok"

\* C5: on a context that has just been created, before any call to enable,
\* enable_only or disable, is_enabled(BLEND) is true.
C5_BlendEnabledByDefault ==
    op.name = "__init__" => is_enabled(BLEND)

\* C6: blend_func reads BLEND_DEFAULT until the first assignment and the pair
\* most recently assigned after that; every assignment passes both components
\* of the pair to glBlendFunc, so the driver's blend function equals the
\* tracked pair from the first assignment on.
C6_BlendFuncRoundTrip ==
    /\ (last_blend = <<>> => blend_func = BLEND_DEFAULT)
    /\ (last_blend # <<>> => blend_func = last_blend /\ gl_blend = blend_func)
    /\ (op.name = "blend_func" =>
            /\ last_blend = op.args
            /\ calls = << <<"glBlendFunc", op.args[1], op.args[2]>> >>)

\* a pair with two different components was assigned, and a later point_size
\* assignment has not disturbed it
C6_Witness ==
    /\ op.name = "point_size"
    /\ last_blend = BLEND_PREMULTIPLIED_ALPHA
    /\ blend_func = BLEND_PREMULTIPLIED_ALPHA
    /\ gl_blend = BLEND_PREMULTIPLIED_ALPHA

\* C7: after point_size = v, point_size reads v and the point size set in the
\* driver (the argument of glPointSize) is that same v.
C7_PointSizeAgrees ==
    op.name = "point_size" =>
        /\ point_size = op.args
        /\ gl_point_size = op.args
        /\ calls = << <<"glPointSize", op.args>> >>

\* C8: ctx.active_program is the program most recently bound in the driver
\* with glUseProgram (None if none was ever bound): every glUseProgram call
\* binds the program recorded as active, and use() on the program that is
\* already active issues no driver call.
C8_ActiveProgramTracked ==
    /\ (active_program = None <=> gl_program = 0)
    /\ (active_program # None => gl_program = _glo[active_program])
    /\ \A i \in DOMAIN calls :
           calls[i][1] = "glUseProgram" =>
               active_program # None /\ calls[i][2] = _glo[active_program]
    /\ (op.name = "use" /\ old_active = op.args[1] => calls = <<>>)
    /\ (op.name = "use" => active_program = op.args[1])

\* use() has run on the program that was active already, with two programs built
C8_Witness ==
    /\ op.name = "use"
    /\ old_active = op.args[1]
    /\ active_program = op.args[1]
    /\ calls = <<>>
    /\ Cardinality(Built) >= 2

\* C9: whenever a uniform's setter runs for program[key] = value, that program
\* is the context's active program and the program bound in the driver,
\* whatever program was active before the assignment.
C9_SetterOnActiveProgram ==
    /\ \A i \in DOMAIN uniform_calls :
           uniform_calls[i].fn = "setter" =>
               /\ uniform_calls[i].active = uniform_calls[i].program
               /\ uniform_calls[i].bound = _glo[uniform_calls[i].program]
    /\ (op.name = "__setitem__" /\ result = "ok" =>
            /\ Len(uniform_calls) = 1
            /\ uniform_calls[1].fn = "setter"
            /\ uniform_calls[1].program = op.args[1])

\* a uniform was assigned on a program while another program was active
C9_Witness ==
    /\ op.name = "__setitem__"
    /\ result = "ok"
    /\ old_active # None
    /\ old_active # op.args[1]
    /\ Len(uniform_calls) = 1
    /\ uniform_calls[1].fn = "setter"

\* C10: program[name] and program[name] = value with a name that is not in the
\* uniform map raise ShaderException and run no getter or setter; with a name
\* that is in the map the lookup raises nothing.
C10_UnknownUniformRaises ==
    op.name \in {"__getitem__", "__setitem__"} =>
        /\ (op.args[2] \notin _uniforms[op.args[1]] =>
                result = "ShaderException" /\ uniform_calls = <<>>)
        /\ (op.args[2] \in _uniforms[op.args[1]] => result = "ok")

\* a read of a name missing from a non-empty uniform map has raised
C10_Witness ==
    /\ op.name = "__getitem__"
    /\ _uniforms[op.args[1]] # {}
    /\ op.args[2] \notin _uniforms[op.args[1]]
    /\ result = "ShaderException"
    /\ uniform_calls = <<>>

\* C11: Context.error returns None when the driver reports GL_NO_ERROR, the
\* name of the error for each of the seven known codes and 'GL_UNKNOWN_ERROR'
\* for any other non-zero code; it never raises and never returns an empty
\* string.
C11_ErrorNames ==
    op.name = "error" =>
        /\ result = "ok"
        /\ returned # <<"">>
        /\ (op.args = GL_NO_ERROR <=> returned = <<>>)
        /\ (op.args = GL_INVALID_ENUM => returned = <<"GL_INVALID_ENUM">>)
        /\ (op.args = GL_INVALID_VALUE => returned = <<"GL_INVALID_VALUE">>)
        /\ (op.args = GL_INVALID_OPERATION => returned = <<"GL_INVALID_OPERATION">>)
        /\ (op.args = GL_STACK_OVERFLOW => returned = <<"GL_STACK_OVERFLOW">>)
        /\ (op.args = GL_STACK_UNDERFLOW => returned = <<"GL_STACK_UNDERFLOW">>)
        /\ (op.args = GL_OUT_OF_MEMORY => returned = <<"GL_OUT_OF_MEMORY">>)
        /\ (op.args = GL_INVALID_FRAMEBUFFER_OPERATION => returned = <<"GL_INVALID_FRAMEBUFFER_OPERATION">>)
        /\ (op.args \notin {GL_NO_ERROR} \cup DOMAIN _errors => returned = <<"GL_UNKNOWN_ERROR">>)

\* the driver reported a non-zero code that is not one of the seven
C11_Witness ==
    /\ op.name = "error"
    /\ op.args = GL_INVALID_FRAMEBUFFER_OPERATION + 1
    /\ returned = <<"GL_UNKNOWN_ERROR">>

\* positions in the driver calls of the last operation where fn was called
CallsOf(fn) == {i \in DOMAIN calls : calls[i][1] = fn}

\* C12: Context.program hands Program an empty out attribute list when a
\* fragment shader is given; without a fragment shader it hands over the
\* geometry shader's out attributes when a geometry shader is given, and the
\* vertex shader's out attributes otherwise.
C12_OutAttributesSelected ==
    op.name = "Context.program" =>
        LET a == op.args
        IN  /\ (a.fragment_shader.kind = "source" => a.out_attributes = <<>>)
            /\ (a.fragment_shader.kind # "source" /\ a.geometry_shader.kind = "source" =>
                    a.out_attributes = a.geometry_shader.out_attributes)
            /\ (a.fragment_shader.kind # "source" /\ a.geometry_shader.kind # "source" =>
                    a.out_attributes = a.vertex_shader.out_attributes)

\* no fragment shader, and a geometry shader whose out attributes differ from
\* the vertex shader's: the geometry shader's were taken and registered
C12_Witness ==
    /\ op.name = "Context.program"
    /\ op.args.fragment_shader = NoShader
    /\ op.args.vertex_shader = ShaderText(<<"out_pos">>)
    /\ op.args.geometry_shader = ShaderText(<<"out_vel">>)
    /\ op.args.out_attributes = <<"out_vel">>
    /\ CallsOf("glTransformFeedbackVaryings") # {}

C14_StatsFrame ==
    /\ (op.name = "__init__" => \A key \in StatKeys : stats[key] = <<0, 0>>)
    /\ (op.name = "incr" =>
            /\ stats[op.args] = <<old_stats[op.args][1] + 1, old_stats[op.args][2]>>
            /\ \A key \in StatKeys \ {op.args} : stats[key] = old_stats[key])
    /\ (op.name = "decr" =>
            /\ stats[op.args] = <<old_stats[op.args][1], old_stats[op.args][2] + 1>>
            /\ \A key \in StatKeys \ {op.args} : stats[key] = old_stats[key])

\* incr('buffer') has run on counters where buffer and texture were non-zero
C14_Witness ==
    /\ op.name = "incr"
    /\ op.args = "buffer"
    /\ old_stats["buffer"] = <<1, 1>>
    /\ stats["buffer"] = <<2, 1>>
    /\ stats["texture"] = <<1, 0>>

====
